---- MODULE Spec2Model ----
(***************************************************************************)
(* A model of the stock simulator: the Portfolio ledger of trading.py with *)
(* its durable record data/portfolio.json, the Market of                   *)
(* services/prices.py, and the trade handlers of app.py that join them.    *)
(*                                                                         *)
(* Money is counted in whole currency units (every price and the starting  *)
(* cash of the source are whole numbers) and arithmetic is exact.  Dates   *)
(* are day numbers, day 0 being the real-world date at which the process   *)
(* started.  Python's None is the string PyNone.                           *)
(***************************************************************************)
EXTENDS Integers, Sequences, FiniteSets, TLC

VARIABLES
    file,      \* the durable record data/portfolio.json
    ledger,    \* the Portfolio object each caller holds, NoLedger before load
    req,       \* the trade request a handler thread has loaded for, or Idle
    market,    \* the server's global Market
    result     \* what the last operation was called with and how it ended

vars == <<file, ledger, req, market, result>>

(***************************************************************************)
(* Bounds of the exploration.                                              *)
(***************************************************************************)
MaxTrades == 2      \* trade records a ledger may hold before trading stops
MaxDays == 1        \* simulated days the market may advance
MaxCallDays == 2    \* the same for a market driven by direct calls

(***************************************************************************)
(* Program constants.                                                      *)
(***************************************************************************)
DefaultCash == 10000        \* Portfolio.__init__(cash=10000.0)
HistoryMaxLen == 10000      \* deque(maxlen=10000)
Today == 0                  \* datetime.date.today()

PyNone == "None"

Insts == {1, 2}             \* the callers (handler threads) holding a Portfolio

\* str.upper() on the symbols the model uses.
Upper(s) ==
    CASE s = "abc" -> "ABC"
      [] s = "xyz" -> "XYZ"
      [] s = "neg" -> "NEG"
      [] OTHER -> s

\* str.strip() on the symbols the model uses.
Strip(s) ==
    CASE s = " abc " -> "abc"
      [] s = " " -> ""
      [] OTHER -> s

(***************************************************************************)
(* Arguments.  A quantity argument is an int, a float counted in halves    *)
(* (n = 3 is 1.5) or a value int() refuses; a price argument is a number   *)
(* or a value float() refuses; a date argument is None, a date, a datetime *)
(* or some other value.                                                    *)
(***************************************************************************)
IntQ(n) == [n |-> n, kind |-> "int"]
HalfQ(h) == [n |-> h, kind |-> "float"]
BadQ == [n |-> 0, kind |-> "bad"]

NumP(v) == [v |-> v, num |-> TRUE]
BadP == [v |-> 0, num |-> FALSE]
\* float("nan"), or NaN in a JSON body: a number to float(), though not a finite one
NanP == [v |-> 0, num |-> TRUE, nan |-> TRUE]

\* math.isfinite of a number argument
IsFinite(x) == "nan" \notin DOMAIN x

NoDate == [kind |-> "none", day |-> 0]
DateArg(d) == [kind |-> "date", day |-> d]
DateTimeArg(d) == [kind |-> "datetime", day |-> d]
OtherDate(v) == [kind |-> "other", day |-> v]

\* int(qty) succeeds
IntOk(q) == q.kind # "bad"

\* a float is rounded to the nearest integer, halves upwards
ToInt_Round(q) ==
    IF q.kind = "int" THEN q.n ELSE (q.n + 1) \div 2

\* int(qty): an int is itself, a float is truncated towards zero
ToInt(q) ==
    IF q.kind = "int" THEN q.n
    ELSE IF q.n >= 0 THEN q.n \div 2 ELSE -((-q.n) \div 2)

\* Portfolio._format_date: the ISO string of a date, str() of anything else
FormatDate(d) ==
    CASE d.kind = "none" -> [day |-> Today, fmt |-> "YYYY-MM-DD"]
      [] d.kind = "datetime" -> [day |-> d.day, fmt |-> "YYYY-MM-DD"]
      [] d.kind = "date" -> [day |-> d.day, fmt |-> "YYYY-MM-DD"]
      [] OTHER -> [day |-> d.day, fmt |-> "str"]

(***************************************************************************)
(* The Portfolio object and the durable record.                            *)
(***************************************************************************)
EmptyMap == [s \in {} |-> 0]

NoLedger == [none |-> TRUE]

\* Portfolio.__init__
NewPortfolio(cash) ==
    [cash |-> cash, holdings |-> EmptyMap, trade_history |-> <<>>]

AbsentFile == [kind |-> "absent"]

\* a record json.load refuses: invalid encoding or truncated content
MalformedFile == [kind |-> "malformed"]

\* A record json.load parses.  A quantity in its holdings is a JSON value, told
\* apart the way a quantity argument is: an integer, a fractional number or a
\* value int() refuses.
JsonFile(data) == [kind |-> "json", data |-> data]

\* dict(self.holdings) as json.dump writes it: every quantity a JSON integer
DumpHoldings(h) == [s \in DOMAIN h |-> IntQ(h[s])]

\* dict.get(key, default)
Get(d, k, default) == IF k \in DOMAIN d THEN d[k] ELSE default

\* `x or y` on a JSON mapping or list: an empty one is falsy
OrElse(x, y) == IF DOMAIN x = {} THEN y ELSE x

\* the holdings are left out of the record
Save_NoHoldings(p) ==
    JsonFile([cash |-> p.cash, holdings |-> EmptyMap, trade_history |-> p.trade_history])

\* the trade log is left out of the record
Save_NoHistory(p) ==
    JsonFile([cash |-> p.cash, holdings |-> DumpHoldings(p.holdings), trade_history |-> <<>>])

\* Portfolio.save: a full overwrite of the durable record
Save(p) ==
    JsonFile([cash |-> p.cash,
              holdings |-> DumpHoldings(p.holdings),
              trade_history |-> p.trade_history])

\* one quantity int() refuses ends the loop with nothing loaded
LoadHoldings_StopAtBad(h) ==
    IF \E k \in DOMAIN h : ~IntOk(h[k])
    THEN EmptyMap
    ELSE [s \in {Upper(k) : k \in DOMAIN h} |->
            LET k == CHOOSE k \in DOMAIN h : Upper(k) = s IN ToInt(h[k])]

\* the holdings loop of Portfolio.load: keys uppercased, quantities through
\* int(), an entry whose quantity int() refuses is skipped
LoadHoldings(h) ==
    LET kept == {k \in DOMAIN h : IntOk(h[k])}
    IN  [s \in {Upper(k) : k \in kept} |->
            LET k == CHOOSE k \in kept : Upper(k) = s IN ToInt(h[k])]

\* the legacy key comes first
LoadData_LegacyFirst(data) ==
    [cash |-> Get(data, "cash", DefaultCash),
     holdings |-> LoadHoldings(OrElse(Get(data, "holdings", EmptyMap), EmptyMap)),
     trade_history |->
        OrElse(OrElse(Get(data, "trades", <<>>), Get(data, "trade_history", <<>>)), <<>>)]

\* the cash of the record is ignored
LoadData_DefaultCash(data) ==
    [cash |-> DefaultCash,
     holdings |-> LoadHoldings(OrElse(Get(data, "holdings", EmptyMap), EmptyMap)),
     trade_history |->
        OrElse(OrElse(Get(data, "trade_history", <<>>), Get(data, "trades", <<>>)), <<>>)]

\* Portfolio.load once the record exists
LoadData(data) ==
    [cash |-> Get(data, "cash", DefaultCash),
     holdings |-> LoadHoldings(OrElse(Get(data, "holdings", EmptyMap), EmptyMap)),
     trade_history |->
        OrElse(OrElse(Get(data, "trade_history", <<>>), Get(data, "trades", <<>>)), <<>>)]

\* a record that does not parse is taken for a missing one
LoadOutcome_Lenient(f) == "ok"

\* Portfolio.load: "ok", or the exception json.load raises
LoadOutcome(f) == IF f.kind = "malformed" THEN "JSONDecodeError" ELSE "ok"

\* Portfolio.load: the object returned, when it returns
Loaded(f) == IF f.kind = "json" THEN LoadData(f.data) ELSE NewPortfolio(DefaultCash)

\* the fresh portfolio is not persisted
FileAfterLoad_NoBootstrap(f) == f

\* Portfolio.load: the durable record afterwards (bootstrap writes it)
FileAfterLoad(f) == IF f.kind = "absent" THEN Save(NewPortfolio(DefaultCash)) ELSE f

(***************************************************************************)
(* Portfolio.buy and Portfolio.sell.                                       *)
(***************************************************************************)
\* dict assignment and deletion
Put(h, k, v) == [s \in DOMAIN h \cup {k} |-> IF s = k THEN v ELSE h[s]]

Del(h, k) == [s \in DOMAIN h \ {k} |-> h[s]]

\* self.holdings.get(symbol, 0)
Owned(p, sym) == Get(p.holdings, sym, 0)

\* one entry of trade_history
Trade(type, sym, q, price, date) ==
    [type |-> type, price |-> price, date |-> FormatDate(date), symbol |-> sym, qty |-> q]

\* a tolerance of a hundred units in place of 1e-9
NotEnoughCash_Loose(cost, cash) == cost > cash + 100

\* `cost > self.cash + 1e-9`: the tolerance is below one currency unit
NotEnoughCash(cost, cash) == cost > cash

\* one share more than owned may be sold
NotEnoughShares_OffByOne(q, owned) == q > owned + 1

\* `qty > owned`
NotEnoughShares(q, owned) == q > owned

\* the checks of Portfolio.buy in the order the code makes them: the message of
\* the exception raised, or "ok"
BuyOutcome(p, symbol, price, qty) ==
    IF symbol = PyNone THEN "Symbol required"
    ELSE IF ~IntOk(qty) THEN "Quantity must be an integer"
    ELSE IF ToInt(qty) <= 0 THEN "Quantity must be > 0"
    ELSE IF ~price.num THEN "could not convert to float"
    ELSE IF NotEnoughCash(price.v * ToInt(qty), p.cash) THEN "Not enough cash"
    ELSE "ok"

\* the cost is taken twice
CashAfterBuy_Twice(cash, cost) == cash - cost - cost

\* `self.cash -= cost`
CashAfterBuy(cash, cost) == cash - cost

\* the quantity bought replaces the position
HoldingAfterBuy_Replace(owned, q) == q

\* `int(self.holdings.get(symbol, 0)) + qty`
HoldingAfterBuy(owned, q) == owned + q

\* the cash is taken before the last check
AfterFailedBuy_CashTaken(p, symbol, price, qty) ==
    IF price.num /\ IntOk(qty) THEN [p EXCEPT !.cash = p.cash - price.v * ToInt(qty)] ELSE p

\* the portfolio a raising buy leaves: every raise comes before the first assignment
AfterFailedBuy(p, symbol, price, qty) == p

\* the mutation of Portfolio.buy, before save()
BuyApply(p, symbol, price, qty, date) ==
    LET sym == Upper(symbol)
        q == ToInt(qty)
    IN  [cash |-> CashAfterBuy(p.cash, price.v * q),
         holdings |-> Put(p.holdings, sym, HoldingAfterBuy(Owned(p, sym), q)),
         trade_history |-> Append(p.trade_history, Trade("BUY", sym, q, price.v, date))]

\* the checks of Portfolio.sell in the order the code makes them
SellOutcome(p, symbol, price, qty) ==
    IF symbol = PyNone THEN "Symbol required"
    ELSE IF ~IntOk(qty) THEN "Quantity must be an integer"
    ELSE IF ToInt(qty) <= 0 THEN "Quantity must be > 0"
    ELSE IF NotEnoughShares(ToInt(qty), Owned(p, Upper(symbol))) THEN "Not enough shares to sell"
    ELSE IF ~price.num THEN "could not convert to float"
    ELSE "ok"

\* a position of zero is kept
PositionClosed_Negative(new_qty) == new_qty < 0

\* `new_qty <= 0`: the position is closed and its key removed
PositionClosed(new_qty) == new_qty <= 0

\* the portfolio a raising sell leaves: every raise comes before the first assignment
AfterFailedSell(p, symbol, price, qty) == p

\* the shares sold stay in the holdings
HoldingsAfterSell_Kept(h, sym, owned, q) == h

\* holdings after selling q of sym
HoldingsAfterSell(h, sym, owned, q) ==
    IF PositionClosed(owned - q) THEN Del(h, sym) ELSE Put(h, sym, owned - q)

\* the SELL record is put at the head of the log
SellApply_Prepend(p, symbol, price, qty, date) ==
    LET sym == Upper(symbol)
        q == ToInt(qty)
    IN  [cash |-> p.cash + price.v * q,
         holdings |-> HoldingsAfterSell(p.holdings, sym, Owned(p, sym), q),
         trade_history |-> <<Trade("SELL", sym, q, price.v, date)>> \o p.trade_history]

\* the mutation of Portfolio.sell, before save()
SellApply(p, symbol, price, qty, date) ==
    LET sym == Upper(symbol)
        q == ToInt(qty)
    IN  [cash |-> p.cash + price.v * q,
         holdings |-> HoldingsAfterSell(p.holdings, sym, Owned(p, sym), q),
         trade_history |-> Append(p.trade_history, Trade("SELL", sym, q, price.v, date))]

\* the portfolio object after buy() returned or raised
AfterBuy(p, symbol, price, qty, date) ==
    IF BuyOutcome(p, symbol, price, qty) = "ok"
    THEN BuyApply(p, symbol, price, qty, date)
    ELSE AfterFailedBuy(p, symbol, price, qty)

\* the portfolio object after sell() returned or raised
AfterSell(p, symbol, price, qty, date) ==
    IF SellOutcome(p, symbol, price, qty) = "ok"
    THEN SellApply(p, symbol, price, qty, date)
    ELSE AfterFailedSell(p, symbol, price, qty)

\* what an operation was called with
TradeArgs(symbol, price, qty, date) ==
    [price |-> price, date |-> date, symbol |-> symbol, qty |-> qty]

NoArgs == [none |-> TRUE]

Result(op, i, outcome, args) == [op |-> op, outcome |-> outcome, args |-> args, inst |-> i]

(***************************************************************************)
(* Operations of one caller on its Portfolio object.                       *)
(***************************************************************************)
\* Portfolio.load()
Load(i) ==
    /\ IF LoadOutcome(file) = "ok"
       THEN /\ ledger' = [ledger EXCEPT ![i] = Loaded(file)]
            /\ file' = FileAfterLoad(file)
       ELSE UNCHANGED <<ledger, file>>
    /\ result' = Result("load", i, LoadOutcome(file), NoArgs)
    /\ UNCHANGED <<req, market>>

\* portfolio.buy(symbol, price, qty, date)
PBuy(i, symbol, price, qty, date) ==
    /\ ledger[i] # NoLedger
    /\ Len(ledger[i].trade_history) < MaxTrades
    /\ LET out == BuyOutcome(ledger[i], symbol, price, qty)
           p == AfterBuy(ledger[i], symbol, price, qty, date)
       IN  /\ result' = Result("buy", i, out, TradeArgs(symbol, price, qty, date))
           /\ ledger' = [ledger EXCEPT ![i] = p]
           /\ file' = IF out = "ok" THEN Save(p) ELSE file
    /\ UNCHANGED <<req, market>>

\* portfolio.sell(symbol, price, qty, date)
PSell(i, symbol, price, qty, date) ==
    /\ ledger[i] # NoLedger
    /\ Len(ledger[i].trade_history) < MaxTrades
    /\ LET out == SellOutcome(ledger[i], symbol, price, qty)
           p == AfterSell(ledger[i], symbol, price, qty, date)
       IN  /\ result' = Result("sell", i, out, TradeArgs(symbol, price, qty, date))
           /\ ledger' = [ledger EXCEPT ![i] = p]
           /\ file' = IF out = "ok" THEN Save(p) ELSE file
    /\ UNCHANGED <<req, market>>

(***************************************************************************)
(* The same operations on a disk that may refuse the write.  io is what    *)
(* the operating system does with the write of save(): "ok" or "fails".    *)
(***************************************************************************)
DiskArgs(symbol, price, qty, date, io) ==
    [price |-> price, date |-> date, symbol |-> symbol, qty |-> qty, io |-> io]

\* save() catches the error of the write
SaveOutcome_Swallowed(io) == "ok"

\* save() has no handler: the OSError of open() or of the write leaves it
SaveOutcome(io) == IF io = "fails" THEN "OSError" ELSE "ok"

\* the record after a save() that raised: open() refused and the record is as
\* it was, or the write stopped part-way and the content is truncated
FilesAfterFailedSave(f) == {f, MalformedFile}

\* portfolio.buy / portfolio.sell, as the command loop of main.py calls them on
\* its long-lived Portfolio: the exception that leaves the call is what the
\* caller reports
PTradeDisk(i, op, symbol, price, qty, date, io) ==
    /\ ledger[i] # NoLedger
    /\ Len(ledger[i].trade_history) < MaxTrades
    /\ LET chk == IF op = "buy" THEN BuyOutcome(ledger[i], symbol, price, qty)
                  ELSE SellOutcome(ledger[i], symbol, price, qty)
           p == IF op = "buy" THEN AfterBuy(ledger[i], symbol, price, qty, date)
                ELSE AfterSell(ledger[i], symbol, price, qty, date)
           out == IF chk = "ok" THEN SaveOutcome(io) ELSE chk
       IN  /\ result' = Result(op, i, out, DiskArgs(symbol, price, qty, date, io))
           /\ ledger' = [ledger EXCEPT ![i] = p]
           /\ IF chk # "ok" THEN file' = file
              ELSE IF io = "ok" THEN file' = Save(p)
              ELSE file' \in FilesAfterFailedSave(file)
    /\ UNCHANGED <<req, market>>

(***************************************************************************)
(* services/prices.py: Stock and Market.  mu and sigma are counted in      *)
(* ten-thousandths.                                                        *)
(***************************************************************************)
DefaultMu == 5              \* mu: float = 0.0005
DefaultSigma == 200         \* sigma: float = 0.02

\* Stock.__init__ on a finite price.  finite tells whether the price is a
\* finite float.
Stock(symbol, price, mu, sigma) ==
    [price |-> price, symbol |-> Upper(symbol), mu |-> mu, sigma |-> sigma,
     history |-> <<>>, finite |-> TRUE]

\* Stock.__init__ on the arguments as float() converted them: float() lets NaN
\* through and __init__ has no test of its own.  The price field of a NaN
\* stock is a placeholder that no day of simulation changes, as NaN * x is NaN.
StockOf(symbol, price, mu, sigma) ==
    IF IsFinite(price) THEN Stock(symbol, price.v, mu.v, sigma.v)
    ELSE [Stock(symbol, 0, mu.v, sigma.v) EXCEPT !.finite = FALSE]

\* a full deque refuses the new entry
DequeAppend_KeepOldest(h, e) ==
    IF Len(h) >= HistoryMaxLen THEN h ELSE Append(h, e)

\* deque.append on a deque(maxlen=10000)
DequeAppend(h, e) ==
    IF Len(h) >= HistoryMaxLen THEN Append(Tail(h), e) ELSE Append(h, e)

\* Stock.record
Record(st, date) == [st EXCEPT !.history = DequeAppend(st.history, <<date, st.price>>)]

\* Market.__init__: order is the insertion order of the keys of the dict stocks
NewMarket(start_date) == [date |-> start_date, stocks |-> EmptyMap, order |-> <<>>]

\* the existing instrument is kept
AddStock_KeepExisting(m, st) ==
    IF Upper(st.symbol) \in DOMAIN m.stocks THEN m
    ELSE [m EXCEPT !.stocks = Put(m.stocks, Upper(st.symbol), Record(st, m.date)),
                   !.order = Append(m.order, Upper(st.symbol))]

\* Market.add_stock: an assignment to a key the dict has keeps its position
AddStock(m, st) ==
    [m EXCEPT !.stocks = Put(m.stocks, Upper(st.symbol), Record(st, m.date)),
              !.order = IF Upper(st.symbol) \in DOMAIN m.stocks
                        THEN m.order ELSE Append(m.order, Upper(st.symbol))]

\* make_default_market
MakeDefaultMarket ==
    AddStock(AddStock(AddStock(AddStock(NewMarket(Today),
        Stock("ABC", 100, 6, 200)),
        Stock("XYZ", 50, 3, 300)),
        Stock("FOO", 200, 8, 150)),
        Stock("BAR", 10, 1, 500))

\* The factor exp(drift + diffusion) of one day is positive and otherwise left
\* to the draw of eps: the model lets a price double or halve (rounded away
\* from zero), so its sign is kept as a product with a positive factor keeps it.
Moves == {"up", "down"}

\* Stock.simulate_day under the move drawn
SimulateDay(st, move) ==
    [st EXCEPT !.price =
        IF move = "up" THEN st.price * 2
        ELSE IF st.price >= 0 THEN (st.price + 1) \div 2
        ELSE -((1 - st.price) \div 2)]

\* the price is recorded before the day is simulated
DayOutcomes_RecordFirst(m) ==
    { [date |-> m.date + 1,
       stocks |-> [s \in DOMAIN m.stocks |->
                      SimulateDay(Record(m.stocks[s], m.date + 1), draw[s])],
       order |-> m.order] :
      draw \in [DOMAIN m.stocks -> Moves] }

\* the prices are recorded under the date the day started from
DayOutcomes_StaleDate(m) ==
    { [date |-> m.date + 1,
       stocks |-> [s \in DOMAIN m.stocks |->
                      Record(SimulateDay(m.stocks[s], draw[s]), m.date)],
       order |-> m.order] :
      draw \in [DOMAIN m.stocks -> Moves] }

\* one pass of the loop of Market.simulate_days: the markets it may leave
DayOutcomes(m) ==
    { [date |-> m.date + 1,
       stocks |-> [s \in DOMAIN m.stocks |->
                      Record(SimulateDay(m.stocks[s], draw[s]), m.date + 1)],
       order |-> m.order] :
      draw \in [DOMAIN m.stocks -> Moves] }

\* Market.simulate_days: the markets it may leave
RECURSIVE SimulateDays(_, _)
SimulateDays(m, days) ==
    IF days <= 0 THEN {m}
    ELSE UNION { SimulateDays(m2, days - 1) : m2 \in DayOutcomes(m) }

\* the price of st after days days of simulate_day in which it fell each day;
\* a price that a fall leaves as it is stays there
RECURSIVE Fallen(_, _)
Fallen(st, days) ==
    IF days <= 0 \/ SimulateDay(st, "down").price = st.price THEN st.price
    ELSE Fallen(SimulateDay(st, "down"), days - 1)

\* st added to a market on the day start and recorded on each of the days
\* that followed, its price falling each day: the full deque holds the last
\* HistoryMaxLen entries, the first of them the one of the addition
Aged(st, start) ==
    [st EXCEPT !.price = Fallen(st, HistoryMaxLen - 1),
               !.history = [k \in 1..HistoryMaxLen |-> <<start + k - 1, Fallen(st, k - 1)>>]]

\* A market that listed ABC on its first day and has run since for as many
\* days as fill the history of ABC.
AgedMarket ==
    [date |-> Today,
     stocks |-> [sym \in {"ABC"} |->
                   Aged(Stock("ABC", 100, DefaultMu, DefaultSigma), Today - (HistoryMaxLen - 1))],
     order |-> <<"ABC">>]

\* the symbols the markets of the model hold, in the order of str.__lt__
SymbolOrder == <<"AAA", "ABC", "BAR", "FOO", "NEG", "XYZ">>

\* sorted(keys)
InKeys(keys, s) == s \in keys

Sorted(keys) == SelectSeq(SymbolOrder, LAMBDA s : InKeys(keys, s))

\* the dict is built in the order the stocks were added
ListPrices_InsertionOrder(m) ==
    [k \in 1..Len(m.order) |-> <<m.order[k], m.stocks[m.order[k]].price>>]

\* Market.list_prices: the items of the dict returned, in their order
ListPrices(m) ==
    LET keys == Sorted(DOMAIN m.stocks)
    IN  [k \in 1..Len(keys) |-> <<keys[k], m.stocks[keys[k]].price>>]

(***************************************************************************)
(* Direct calls of the Market class, as the command loop of main.py makes  *)
(* them for addstock; simulate_days is called with any integer.            *)
(***************************************************************************)
\* addstock SYMBOL PRICE of main.py: Stock(...) and market.add_stock(stock)
MAddStock(symArg, price, mu, sigma) ==
    LET out == IF ~price.num THEN "PRICE must be a number" ELSE "added"
    IN  /\ result' = Result("add_stock", 0, out,
                            [price |-> price, symbol |-> symArg, mu |-> mu, sigma |-> sigma])
        /\ market' = IF out = "added"
                     THEN AddStock(market, StockOf(Upper(symArg), price, mu, sigma))
                     ELSE market
        /\ UNCHANGED <<file, ledger, req>>

\* market.simulate_days(days) with any integer
MSimulateDays(days) ==
    /\ market.date + ToInt(days) <= Today + MaxCallDays
    /\ result' = Result("simulate_days", 0, "ok", [days |-> days])
    /\ market' \in SimulateDays(market, ToInt(days))
    /\ UNCHANGED <<file, ledger, req>>

\* market.list_prices()
MListPrices ==
    /\ result' = Result("list_prices", 0, "ok", [prices |-> ListPrices(market)])
    /\ UNCHANGED <<file, ledger, req, market>>

(***************************************************************************)
(* Portfolio.net_worth.                                                    *)
(***************************************************************************)
\* a single share is passed over too
WorthCounted_AboveOne(qty) == qty > 1

\* `if qty <= 0: continue`
WorthCounted(qty) == qty > 0

\* the loop of net_worth over the holdings syms: a symbol the market does not
\* list is passed over
RECURSIVE WorthOf(_, _, _)
WorthOf(p, m, syms) ==
    IF syms = {} THEN 0
    ELSE LET sym == CHOOSE x \in syms : TRUE
             here == IF WorthCounted(p.holdings[sym]) /\ Upper(sym) \in DOMAIN m.stocks
                     THEN m.stocks[Upper(sym)].price * p.holdings[sym]
                     ELSE 0
         IN  here + WorthOf(p, m, syms \ {sym})

\* Portfolio.net_worth
NetWorth(p, m) == p.cash + WorthOf(p, m, DOMAIN p.holdings)

\* the instruments that are not held are taken off the market
PNetWorth_Delists(i) ==
    /\ ledger[i] # NoLedger
    /\ result' = Result("net_worth", i, "ok", [value |-> NetWorth(ledger[i], market)])
    /\ market' = [market EXCEPT !.stocks =
                     [sym \in DOMAIN market.stocks \cap DOMAIN ledger[i].holdings |->
                         market.stocks[sym]]]
    /\ UNCHANGED <<file, ledger, req>>

\* portfolio.net_worth(market)
PNetWorth(i) ==
    /\ ledger[i] # NoLedger
    /\ result' = Result("net_worth", i, "ok", [value |-> NetWorth(ledger[i], market)])
    /\ UNCHANGED <<file, ledger, req, market>>

(***************************************************************************)
(* app.py: the handlers.                                                   *)
(***************************************************************************)
Idle == [symbol |-> "", qty |-> 0, op |-> "", outcome |-> "", phase |-> "idle"]

\* (j.get("symbol") or "").strip().upper()
ApiSymbol(symArg) == Upper(Strip(IF symArg = PyNone THEN "" ELSE symArg))

ApiArgs(symArg, qtyArg) == [symbol |-> symArg, qty |-> qtyArg]

\* the symbol is not looked up in the market
ApiTradeReject_AnySymbol(symArg, qtyArg, m) ==
    IF ApiSymbol(symArg) = "" THEN "symbol is required"
    ELSE IF ~IntOk(qtyArg) THEN "qty must be an integer"
    ELSE IF ToInt(qtyArg) <= 0 THEN "qty must be > 0"
    ELSE "ok"

\* the checks api_buy and api_sell make before they load the portfolio
ApiTradeReject(symArg, qtyArg, m) ==
    IF ApiSymbol(symArg) = "" THEN "symbol is required"
    ELSE IF ~IntOk(qtyArg) THEN "qty must be an integer"
    ELSE IF ToInt(qtyArg) <= 0 THEN "qty must be > 0"
    ELSE IF ApiSymbol(symArg) \notin DOMAIN m.stocks THEN "unknown symbol"
    ELSE "ok"

\* the outcome of portfolio.buy or portfolio.sell as the handler calls it: the
\* price and the date are the market's
ApiTradeOutcome(op, p, symbol, q, m) ==
    IF symbol \notin DOMAIN m.stocks THEN "KeyError"
    ELSE IF op = "api_buy"
    THEN BuyOutcome(p, symbol, NumP(m.stocks[symbol].price), IntQ(q))
    ELSE SellOutcome(p, symbol, NumP(m.stocks[symbol].price), IntQ(q))

\* the date of the market is not passed on
ApiTradeApply_NoDate(op, p, symbol, q, m) ==
    IF symbol \notin DOMAIN m.stocks THEN p
    ELSE IF op = "api_buy"
    THEN AfterBuy(p, symbol, NumP(m.stocks[symbol].price), IntQ(q), NoDate)
    ELSE AfterSell(p, symbol, NumP(m.stocks[symbol].price), IntQ(q), NoDate)

\* the portfolio object the handler's call leaves
ApiTradeApply(op, p, symbol, q, m) ==
    IF symbol \notin DOMAIN m.stocks THEN p
    ELSE IF op = "api_buy"
    THEN AfterBuy(p, symbol, NumP(m.stocks[symbol].price), IntQ(q), DateArg(m.date))
    ELSE AfterSell(p, symbol, NumP(m.stocks[symbol].price), IntQ(q), DateArg(m.date))

\* api_buy / api_sell run to completion, as one caller at a time runs them
ApiTrade(i, op, symArg, qtyArg) ==
    /\ LoadOutcome(file) = "ok" => Len(Loaded(file).trade_history) < MaxTrades
    /\ LET rej == ApiTradeReject(symArg, qtyArg, market)
           symbol == ApiSymbol(symArg)
           q == ToInt(qtyArg)
           out == ApiTradeOutcome(op, Loaded(file), symbol, q, market)
           p == ApiTradeApply(op, Loaded(file), symbol, q, market)
       IN  IF rej # "ok"
           THEN /\ result' = Result(op, i, rej, ApiArgs(symArg, qtyArg))
                /\ UNCHANGED <<file, ledger>>
           ELSE IF LoadOutcome(file) # "ok"
           THEN /\ result' = Result(op, i, LoadOutcome(file), ApiArgs(symArg, qtyArg))
                /\ UNCHANGED <<file, ledger>>
           ELSE /\ result' = Result(op, i, out, ApiArgs(symArg, qtyArg))
                /\ ledger' = [ledger EXCEPT ![i] = p]
                /\ file' = IF out = "ok" THEN Save(p) ELSE FileAfterLoad(file)
    /\ UNCHANGED <<req, market>>

ApiBuy(i, symArg, qtyArg) == ApiTrade(i, "api_buy", symArg, qtyArg)

ApiSell(i, symArg, qtyArg) == ApiTrade(i, "api_sell", symArg, qtyArg)

\* The same handlers on a threaded server: a request is validated and its
\* portfolio loaded in one step, and traded and saved in a later one.
Pending(op, symbol, q) ==
    [symbol |-> symbol, qty |-> q, op |-> op, outcome |-> "", phase |-> "loaded"]

Done(op, symbol, q, outcome) ==
    [symbol |-> symbol, qty |-> q, op |-> op, outcome |-> outcome, phase |-> "done"]

ApiBegin(i, op, symArg, qtyArg) ==
    /\ req[i].phase # "loaded"
    /\ LoadOutcome(file) = "ok"
    /\ Len(Loaded(file).trade_history) < MaxTrades
    /\ LET rej == ApiTradeReject(symArg, qtyArg, market)
       IN  IF rej # "ok"
           THEN /\ result' = Result(op, i, rej, ApiArgs(symArg, qtyArg))
                /\ req' = [req EXCEPT ![i] = Done(op, ApiSymbol(symArg), 0, rej)]
                /\ UNCHANGED <<file, ledger>>
           ELSE /\ result' = Result(op, i, "loaded", ApiArgs(symArg, qtyArg))
                /\ req' = [req EXCEPT ![i] = Pending(op, ApiSymbol(symArg), ToInt(qtyArg))]
                /\ ledger' = [ledger EXCEPT ![i] = Loaded(file)]
                /\ file' = FileAfterLoad(file)
    /\ UNCHANGED market

ApiFinish(i) ==
    /\ req[i].phase = "loaded"
    /\ LET r == req[i]
           out == ApiTradeOutcome(r.op, ledger[i], r.symbol, r.qty, market)
           p == ApiTradeApply(r.op, ledger[i], r.symbol, r.qty, market)
       IN  /\ result' = Result(r.op, i, out, ApiArgs(r.symbol, IntQ(r.qty)))
           /\ req' = [req EXCEPT ![i] = Done(r.op, r.symbol, r.qty, out)]
           /\ ledger' = [ledger EXCEPT ![i] = p]
           /\ file' = IF out = "ok" THEN Save(p) ELSE file
    /\ UNCHANGED market

\* api_buy / api_sell on such a disk: `except Exception` turns whatever
\* load(), buy() or sell() raised into the error response
ApiTradeDisk(i, op, symArg, qtyArg, io) ==
    /\ LoadOutcome(file) = "ok" => Len(Loaded(file).trade_history) < MaxTrades
    /\ LET rej == ApiTradeReject(symArg, qtyArg, market)
           symbol == ApiSymbol(symArg)
           q == ToInt(qtyArg)
           chk == ApiTradeOutcome(op, Loaded(file), symbol, q, market)
           p == ApiTradeApply(op, Loaded(file), symbol, q, market)
           args == [symbol |-> symArg, qty |-> qtyArg, io |-> io]
       IN  IF rej # "ok"
           THEN /\ result' = Result(op, i, rej, args)
                /\ UNCHANGED <<file, ledger>>
           ELSE IF LoadOutcome(file) # "ok"
           THEN /\ result' = Result(op, i, LoadOutcome(file), args)
                /\ UNCHANGED <<file, ledger>>
           ELSE IF file.kind = "absent" /\ io = "fails"
           THEN /\ result' = Result(op, i, SaveOutcome(io), args)
                /\ file' \in FilesAfterFailedSave(file)
                /\ UNCHANGED ledger
           ELSE /\ result' = Result(op, i, IF chk = "ok" THEN SaveOutcome(io) ELSE chk, args)
                /\ ledger' = [ledger EXCEPT ![i] = p]
                /\ IF chk # "ok" THEN file' = FileAfterLoad(file)
                   ELSE IF io = "ok" THEN file' = Save(p)
                   ELSE file' \in FilesAfterFailedSave(FileAfterLoad(file))
    /\ UNCHANGED <<req, market>>

MaxApiDays == 3650          \* days too large (max 3650)

\* the checks of api_addstock
AddStockOutcome(symArg, price, mu, sigma, m) ==
    IF ApiSymbol(symArg) = "" THEN "symbol is required"
    ELSE IF ApiSymbol(symArg) \in DOMAIN m.stocks THEN "stock already exists"
    ELSE IF ~price.num THEN "price must be a number"
    ELSE IF ~mu.num \/ ~sigma.num THEN "mu and sigma must be numbers"
    ELSE "stock added"

\* api_addstock
ApiAddStock(symArg, price, mu, sigma) ==
    LET out == AddStockOutcome(symArg, price, mu, sigma, market)
    IN  /\ result' = Result("api_addstock", 0, out,
                            [price |-> price, symbol |-> symArg, mu |-> mu, sigma |-> sigma])
        /\ market' = IF out = "stock added"
                     THEN AddStock(market, StockOf(ApiSymbol(symArg), price, mu, sigma))
                     ELSE market
        /\ UNCHANGED <<file, ledger, req>>

\* zero days are let through
NextOutcome_ZeroAllowed(days) ==
    IF ~IntOk(days) THEN "days must be an integer"
    ELSE IF ToInt(days) < 0 THEN "days must be >= 1"
    ELSE IF ToInt(days) > MaxApiDays THEN "days too large (max 3650)"
    ELSE "ok"

\* the checks of api_next
NextOutcome(days) ==
    IF ~IntOk(days) THEN "days must be an integer"
    ELSE IF ToInt(days) < 1 THEN "days must be >= 1"
    ELSE IF ToInt(days) > MaxApiDays THEN "days too large (max 3650)"
    ELSE "ok"

\* api_next
ApiNext(days) ==
    LET out == NextOutcome(days)
    IN  /\ out = "ok" => market.date + ToInt(days) <= Today + MaxDays
        /\ result' = Result("api_next", 0, out, [days |-> days])
        /\ IF out = "ok"
           THEN market' \in SimulateDays(market, ToInt(days))
           ELSE market' = market
        /\ UNCHANGED <<file, ledger, req>>

\* the market is left as it is
MarketAfterReset_Kept(m) == m

\* `global market; market = make_default_market()`
MarketAfterReset(m) == MakeDefaultMarket

\* the durable record is left as it is
FileAfterReset_Kept(f) == f

\* `default_port = Portfolio(); default_port.save()`
FileAfterReset(f) == Save(NewPortfolio(DefaultCash))

\* api_reset: the copy it first makes of the durable record goes to a file of
\* its own, which nothing reads
ApiReset ==
    /\ file' = FileAfterReset(file)
    /\ market' = MarketAfterReset(market)
    /\ result' = Result("api_reset", 0, "reset complete", NoArgs)
    /\ UNCHANGED <<ledger, req>>

(***************************************************************************)
(* Inputs.                                                                 *)
(***************************************************************************)
\* A durable record in the documented format whose holdings still list a
\* position of quantity zero.
ZeroHoldingFile ==
    JsonFile([cash |-> DefaultCash,
              holdings |-> [s \in {"XYZ"} |-> IntQ(0)],
              trade_history |-> <<>>])

InitialFiles == {AbsentFile, ZeroHoldingFile}

\* calls of Portfolio.buy and Portfolio.sell
Calls ==
    {TradeArgs(s, NumP(100), IntQ(n), DateArg(1)) : s \in {"abc", "XYZ"}, n \in {1, 100, 101}}
    \cup {TradeArgs("ABC", p, IntQ(1), DateArg(1)) : p \in {NumP(-100), BadP}}
    \cup {TradeArgs("ABC", NumP(100), q, DateArg(1)) :
             q \in {IntQ(0), IntQ(-1), HalfQ(1), HalfQ(3), BadQ}}
    \cup {TradeArgs("", NumP(100), IntQ(1), DateArg(1))}
    \cup {TradeArgs("ABC", NumP(100), IntQ(1), d) : d \in {NoDate, DateTimeArg(2), OtherDate(7)}}
    \cup {TradeArgs(PyNone, NumP(100), IntQ(1), DateArg(1))}

\* Durable records as another program or an older version may have left them:
\* any of the keys may be missing, the trade log may sit under the legacy key
\* "trades", a holdings key may be lowercase and a quantity may be a fractional
\* number or a value int() refuses.
RecordOf(keys, cash, h, th, tr) ==
    [k \in keys |->
        CASE k = "cash" -> cash
          [] k = "holdings" -> h
          [] k = "trade_history" -> th
          [] k = "trades" -> tr]

KeySets ==
    {{"cash", "holdings", "trade_history", "trades"},
     {"cash", "holdings", "trade_history"},
     {"cash", "holdings", "trades"},
     {"cash", "holdings"},
     {"holdings", "trade_history"}}

HoldingsInFile ==
    {EmptyMap,
     [s \in {"abc"} |-> IntQ(5)],
     [s \in {"XYZ"} |-> IntQ(0)],
     [s \in {"ABC", "XYZ"} |-> IF s = "XYZ" THEN HalfQ(3) ELSE IntQ(2)],
     [s \in {"abc", "XYZ"} |-> IF s = "XYZ" THEN BadQ ELSE IntQ(2)]}

CanonicalLogs == {<<>>, <<Trade("BUY", "ABC", 1, 100, DateArg(0))>>}

LegacyLogs == {<<>>, <<Trade("BUY", "XYZ", 2, 50, DateArg(0))>>}

LoadFiles ==
    {AbsentFile, MalformedFile}
    \cup {JsonFile(RecordOf(keys, 500, h, th, tr)) :
             keys \in KeySets, h \in HoldingsInFile, th \in CanonicalLogs, tr \in LegacyLogs}

ApiSymbols == {PyNone, " abc ", "neg", "nope"}

ApiQtys == {IntQ(0), IntQ(101), HalfQ(3), BadQ}

AddStockSymbols == {"neg", "abc", " "}

AddStockPrices == {NumP(-100), BadP}

DayArgs == {IntQ(0), IntQ(1), IntQ(2), IntQ(3651), BadQ}

(***************************************************************************)
(* Specifications.                                                         *)
(***************************************************************************)
Init ==
    /\ file \in InitialFiles
    /\ ledger = [i \in Insts |-> NoLedger]
    /\ req = [i \in Insts |-> Idle]
    /\ market = MakeDefaultMarket
    /\ result = Result("init", 0, "ok", NoArgs)

\* The server as one caller at a time drives it.
Next ==
    \/ \E s \in ApiSymbols, q \in ApiQtys : ApiBuy(1, s, q)
    \/ \E s \in ApiSymbols, q \in ApiQtys : ApiSell(1, s, q)
    \/ \E s \in AddStockSymbols, p \in AddStockPrices :
          ApiAddStock(s, p, NumP(DefaultMu), NumP(DefaultSigma))
    \/ \E d \in DayArgs : ApiNext(d)

Spec == Init /\ [][Next]_vars

\* The server with its reset, one caller at a time.
NextReset ==
    \/ ApiBuy(1, " abc ", IntQ(1))
    \/ ApiAddStock("neg", NumP(7), NumP(DefaultMu), NumP(DefaultSigma))
    \/ ApiNext(IntQ(1))
    \/ ApiReset

SpecReset == Init /\ [][NextReset]_vars

\* The server trading on a market that moves, one caller at a time.
TradeSymbols == {" abc ", "nope"}

TradeQtys == {IntQ(1), HalfQ(5)}

NextTrade ==
    \/ \E sym \in TradeSymbols, q \in TradeQtys : ApiBuy(1, sym, q)
    \/ \E sym \in TradeSymbols, q \in TradeQtys : ApiSell(1, sym, q)
    \/ ApiNext(IntQ(1))

SpecTrade == Init /\ [][NextTrade]_vars

\* One caller of the Portfolio class.
NextLedger ==
    \/ Load(1)
    \/ \E c \in Calls : PBuy(1, c.symbol, c.price, c.qty, c.date)
    \/ \E c \in Calls : PSell(1, c.symbol, c.price, c.qty, c.date)

SpecLedger == Init /\ [][NextLedger]_vars

\* One caller of the Portfolio class who asks for the net worth, on a market
\* that moves.
WorthCalls ==
    {TradeArgs(sym, NumP(100), IntQ(n), DateArg(1)) : sym \in {"abc", "GONE"}, n \in {1, 2}}

NextWorth ==
    \/ Load(1)
    \/ \E c \in WorthCalls : PBuy(1, c.symbol, c.price, c.qty, c.date)
    \/ \E c \in WorthCalls : PSell(1, c.symbol, c.price, c.qty, c.date)
    \/ ApiNext(IntQ(1))
    \/ PNetWorth(1)

SpecWorth == Init /\ [][NextWorth]_vars

\* A market built from Market() by Stock(...) and add_stock, as
\* make_default_market and the addstock command build theirs, and driven by
\* direct calls.
MarketSymbols == {"abc", "ABC", "XYZ"}

MarketPrices == {NumP(7), NanP, BadP}

CallDays == {IntQ(-1), IntQ(0), IntQ(1), IntQ(2)}

InitMarket ==
    /\ file \in InitialFiles
    /\ ledger = [i \in Insts |-> NoLedger]
    /\ req = [i \in Insts |-> Idle]
    /\ market = NewMarket(Today)
    /\ result = Result("init", 0, "ok", NoArgs)

NextMarket ==
    \/ \E sym \in MarketSymbols, p \in MarketPrices :
          MAddStock(sym, p, NumP(DefaultMu), NumP(DefaultSigma))
    \/ \E d \in CallDays : MSimulateDays(d)
    \/ MListPrices

SpecMarket == InitMarket /\ [][NextMarket]_vars

\* One program holding a Portfolio and a Market of its own, as main.py does.
NextFrame ==
    \/ Load(1)
    \/ \E n \in {1, 2} : PBuy(1, "abc", NumP(100), IntQ(n), DateArg(1))
    \/ PSell(1, "abc", NumP(100), IntQ(1), DateArg(1))
    \/ PNetWorth(1)
    \/ \E p \in {NumP(100), BadP} : MAddStock("abc", p, NumP(DefaultMu), NumP(DefaultSigma))
    \/ \E d \in {IntQ(0), IntQ(1)} : MSimulateDays(d)
    \/ MListPrices

SpecFrame == InitMarket /\ [][NextFrame]_vars

\* A market whose oldest history is full, driven by direct calls.
InitAged ==
    /\ file \in InitialFiles
    /\ ledger = [i \in Insts |-> NoLedger]
    /\ req = [i \in Insts |-> Idle]
    /\ market = AgedMarket
    /\ result = Result("init", 0, "ok", NoArgs)

NextAged ==
    \/ \E p \in {NumP(7), BadP} : MAddStock("xyz", p, NumP(DefaultMu), NumP(DefaultSigma))
    \/ \E d \in {IntQ(0), IntQ(1), IntQ(2)} : MSimulateDays(d)
    \/ MListPrices

SpecAged == InitAged /\ [][NextAged]_vars

\* The default market advanced by direct calls and through /api/next.
NextAdvance ==
    \/ \E d \in CallDays : MSimulateDays(d)
    \/ \E d \in DayArgs : ApiNext(d)

SpecAdvance == Init /\ [][NextAdvance]_vars

\* Two requests in flight on a threaded server.
NextRace ==
    \/ \E i \in Insts, s \in {" abc "}, q \in {IntQ(1), IntQ(101)} : ApiBegin(i, "api_buy", s, q)
    \/ \E i \in Insts, s \in {" abc "}, q \in {IntQ(1), IntQ(101)} : ApiBegin(i, "api_sell", s, q)
    \/ \E i \in Insts : ApiFinish(i)

SpecRace == Init /\ [][NextRace]_vars

\* One caller that only buys.
NextBuys ==
    \/ Load(1)
    \/ \E c \in Calls : PBuy(1, c.symbol, c.price, c.qty, c.date)

SpecBuys == Init /\ [][NextBuys]_vars

\* A caller of the Portfolio class and the server's handlers on a disk whose
\* writes may fail.
IoOutcomes == {"ok", "fails"}

DiskCalls ==
    {TradeArgs(s, NumP(100), IntQ(n), DateArg(1)) : s \in {"abc", "XYZ"}, n \in {1, 101}}

NextDisk ==
    \/ Load(1)
    \/ \E c \in DiskCalls, io \in IoOutcomes :
          PTradeDisk(1, "buy", c.symbol, c.price, c.qty, c.date, io)
    \/ \E c \in DiskCalls, io \in IoOutcomes :
          PTradeDisk(1, "sell", c.symbol, c.price, c.qty, c.date, io)
    \/ \E q \in {IntQ(1), IntQ(101)}, io \in IoOutcomes : ApiTradeDisk(2, "api_buy", " abc ", q, io)
    \/ \E q \in {IntQ(1), IntQ(101)}, io \in IoOutcomes : ApiTradeDisk(2, "api_sell", " abc ", q, io)

SpecDisk == Init /\ [][NextDisk]_vars

\* A process that starts on a durable record it did not write: callers load
\* it, and the server's handlers trade on it.
InitLoad ==
    /\ file \in LoadFiles
    /\ ledger = [i \in Insts |-> NoLedger]
    /\ req = [i \in Insts |-> Idle]
    /\ market = MakeDefaultMarket
    /\ result = Result("init", 0, "ok", NoArgs)

NextLoad ==
    \/ \E i \in Insts : Load(i)
    \/ \E q \in {IntQ(1), IntQ(101)} : ApiBuy(1, " abc ", q)
    \/ \E q \in {IntQ(1), IntQ(101)} : ApiSell(1, " abc ", q)

SpecLoad == InitLoad /\ [][NextLoad]_vars

(***************************************************************************)
(* Properties.                                                             *)
(***************************************************************************)
\* a call whose symbol, quantity and price pass validation
ValidCall(a) == a.symbol # PyNone /\ a.qty.kind = "int" /\ a.qty.n > 0 /\ a.price.num

\* the durable record holds exactly the state of portfolio p
FileHolds(p) ==
    /\ file.kind = "json"
    /\ file.data.cash = p.cash
    /\ file.data.holdings = [s \in DOMAIN p.holdings |-> IntQ(p.holdings[s])]
    /\ file.data.trade_history = p.trade_history

RECURSIVE SumCost(_)
SumCost(th) ==
    IF th = <<>> THEN 0 ELSE th[1].price * th[1].qty + SumCost(Tail(th))

\* C1: a buy whose cost price * qty exceeds the cash fails with "Not enough
\* cash" and leaves cash, holdings, trade_history and the durable record as
\* they were.
C1_Step ==
    LET a == result'.args
    IN  (/\ result'.op = "buy"
         /\ ValidCall(a)
         /\ a.price.v * a.qty.n > ledger[result'.inst].cash)
        => (/\ result'.outcome = "Not enough cash"
            /\ ledger' = ledger
            /\ file' = file)

C1_InsufficientCashRejected == [][C1_Step]_vars

C1_Witness ==
    /\ result.op = "buy"
    /\ result.outcome = "Not enough cash"
    /\ ValidCall(result.args)
    /\ result.args.price.v * result.args.qty.n > ledger[result.inst].cash

\* C2: a sell of more than the quantity held of the symbol (0 if not held)
\* fails with "Not enough shares to sell" and leaves cash and holdings as they
\* were, creating no entry for a symbol that was not held.
C2_Step ==
    LET a == result'.args
        i == result'.inst
    IN  (/\ result'.op = "sell"
         /\ a.symbol # PyNone
         /\ a.qty.kind = "int"
         /\ a.qty.n > Get(ledger[i].holdings, Upper(a.symbol), 0))
        => (/\ result'.outcome = "Not enough shares to sell"
            /\ ledger'[i].cash = ledger[i].cash
            /\ ledger'[i].holdings = ledger[i].holdings)

C2_OversellRejected == [][C2_Step]_vars

C2_Witness ==
    /\ result.op = "sell"
    /\ result.outcome = "Not enough shares to sell"
    /\ Upper(result.args.symbol) \notin DOMAIN ledger[result.inst].holdings
    /\ DOMAIN ledger[result.inst].holdings # {}

\* C3: in every reachable state the cash of every portfolio object and of the
\* durable record is at least zero.
C3_CashNonNegative ==
    /\ \A i \in Insts : ledger[i] # NoLedger => ledger[i].cash >= 0
    /\ file.kind = "json" => file.data.cash >= 0

\* C4: in every reachable state every entry of a portfolio's holdings has a
\* strictly positive quantity.
C4_HoldingsPositive ==
    \A i \in Insts : ledger[i] # NoLedger =>
        \A s \in DOMAIN ledger[i].holdings : ledger[i].holdings[s] > 0

\* C5: over any sequence of buy calls on a ledger that started with cash
\* DefaultCash, the cash equals DefaultCash minus the sum of price * qty over
\* the buys that executed: an executed buy is logged with the price and the
\* quantity it was called with, a failed buy leaves the log as it was.
C5_Sum ==
    ledger[1] # NoLedger =>
        ledger[1].cash = DefaultCash - SumCost(ledger[1].trade_history)

C5_Step ==
    LET a == result'.args
        th == ledger[1].trade_history
        th2 == ledger'[1].trade_history
    IN  result'.op = "buy" =>
          IF result'.outcome = "ok"
          THEN /\ Len(th2) = Len(th) + 1
               /\ SubSeq(th2, 1, Len(th)) = th
               /\ a.qty.kind = "int" =>
                    th2[Len(th2)].price = a.price.v /\ th2[Len(th2)].qty = a.qty.n
          ELSE th2 = th

C6_Step ==
    LET a == result'.args
        p == ledger[result'.inst]
        p2 == ledger'[result'.inst]
        sym == Upper(a.symbol)
    IN  (result'.op = "buy" /\ result'.outcome = "ok" /\ a.qty.kind = "int")
        => (/\ p2.cash = p.cash - a.price.v * a.qty.n
            /\ DOMAIN p2.holdings = DOMAIN p.holdings \cup {sym}
            /\ p2.holdings[sym] = Get(p.holdings, sym, 0) + a.qty.n
            /\ \A s \in DOMAIN p.holdings \ {sym} : p2.holdings[s] = p.holdings[s]
            /\ p2.trade_history =
                 Append(p.trade_history,
                        [type |-> "BUY", price |-> a.price.v, date |-> FormatDate(a.date),
                         symbol |-> sym, qty |-> a.qty.n]))

C6_BuyEffect == [][C6_Step]_vars

C6_Witness ==
    /\ result.op = "buy"
    /\ result.outcome = "ok"
    /\ result.args.symbol = "abc"
    /\ result.args.qty.kind = "int"
    /\ Len(ledger[1].trade_history) = 2
    /\ ledger[1].holdings["ABC"] > result.args.qty.n

\* C7: a successful sell adds exactly price * qty to the cash, takes exactly
\* qty from the holding of the symbol, removes the key when nothing is left,
\* leaves every other holding alone and appends one SELL record.
C7_Step ==
    LET a == result'.args
        p == ledger[result'.inst]
        p2 == ledger'[result'.inst]
        sym == Upper(a.symbol)
        left == Get(p.holdings, sym, 0) - a.qty.n
    IN  (result'.op = "sell" /\ result'.outcome = "ok" /\ a.qty.kind = "int")
        => (/\ p2.cash = p.cash + a.price.v * a.qty.n
            /\ IF left = 0
               THEN DOMAIN p2.holdings = DOMAIN p.holdings \ {sym}
               ELSE /\ DOMAIN p2.holdings = DOMAIN p.holdings
                    /\ p2.holdings[sym] = left
            /\ \A s \in DOMAIN p.holdings \ {sym} : p2.holdings[s] = p.holdings[s]
            /\ p2.trade_history =
                 Append(p.trade_history,
                        [type |-> "SELL", price |-> a.price.v, date |-> FormatDate(a.date),
                         symbol |-> sym, qty |-> a.qty.n]))

C7_SellEffect == [][C7_Step]_vars

C7_Witness ==
    /\ result.op = "sell"
    /\ result.outcome = "ok"
    /\ result.args.qty.kind = "int"
    /\ Upper(result.args.symbol) \notin DOMAIN ledger[1].holdings

\* C8: a buy or sell that fails, whatever check refused it, has changed neither
\* cash, holdings nor trade_history, and nothing was written to the durable
\* record.
C8_Step ==
    (result'.op \in {"buy", "sell"} /\ result'.outcome # "ok")
    => (ledger' = ledger /\ file' = file)

C8_NoPartialTrade == [][C8_Step]_vars

C8_Witness ==
    /\ result.op = "sell"
    /\ result.outcome = "could not convert to float"
    /\ ledger[1].trade_history # <<>>

\* C9: after every buy or sell that returned, the durable record holds the
\* cash, holdings and trade_history of the portfolio in memory.
C9_WriteThrough ==
    (result.op \in {"buy", "sell"} /\ result.outcome = "ok")
    => FileHolds(ledger[result.inst])

C9_Witness ==
    /\ result.op = "sell"
    /\ result.outcome = "ok"
    /\ Len(ledger[1].trade_history) = 2
    /\ FileHolds(ledger[1])

\* C10: when two buy requests that loaded the same durable record have both
\* reported success, the record holds the state one of them saved and nothing
\* of the other: one trade record, not two, was added to what they loaded.
BothBought ==
    \A i \in Insts :
        req[i].phase = "done" /\ req[i].op = "api_buy" /\ req[i].outcome = "ok"

C10_LostUpdate ==
    (BothBought /\ Len(ledger[1].trade_history) = Len(ledger[2].trade_history))
    => (/\ FileHolds(ledger[1]) \/ FileHolds(ledger[2])
        /\ Len(file.data.trade_history) = Len(ledger[1].trade_history))

C10_Witness ==
    /\ BothBought
    /\ Len(file.data.trade_history) = 1
    /\ file.data.cash = DefaultCash - SumCost(file.data.trade_history)
    /\ \A i \in Insts : Len(ledger[i].trade_history) = 1

\* a record that load() reads back as it stands and save() writes back unchanged
RoundTrip(f) ==
    /\ LoadOutcome(f) = "ok"
    /\ Loaded(f).cash = f.data.cash
    /\ DOMAIN Loaded(f).holdings = DOMAIN f.data.holdings
    /\ \A s \in DOMAIN f.data.holdings :
          f.data.holdings[s] = [n |-> Loaded(f).holdings[s], kind |-> "int"]
    /\ Loaded(f).trade_history = f.data.trade_history
    /\ Save(Loaded(f)) = f

C11_Step == file' # file => RoundTrip(file')

\* C11: every durable record that save() wrote (every step that changes the
\* record is a save) is loaded as a ledger with the cash, holdings and
\* trade_history stored in it, and saving that ledger writes the same record.
C11_RoundTrip == [][C11_Step]_vars

C11_Witness ==
    /\ result.op = "load"
    /\ ledger[1] # NoLedger
    /\ FileHolds(ledger[1])
    /\ Len(file.data.trade_history) = 2
    /\ DOMAIN file.data.holdings # {}

C12_Step ==
    (result'.op = "load" /\ result'.outcome = "ok")
    => IF file.kind = "absent"
       THEN /\ ledger'[result'.inst] =
                  [cash |-> DefaultCash, holdings |-> EmptyMap, trade_history |-> <<>>]
            /\ file' = [kind |-> "json",
                        data |-> [cash |-> DefaultCash, holdings |-> EmptyMap,
                                  trade_history |-> <<>>]]
       ELSE file' = file

\* C12: load() with no durable record returns a fresh ledger (cash 10000, no
\* holdings, no trades) and leaves a record with exactly that content; load()
\* with a record present leaves the record as it was.
C12_Bootstrap == [][C12_Step]_vars

C12_Witness ==
    /\ result.op = "load"
    /\ ledger[result.inst] = NewPortfolio(DefaultCash)
    /\ file = Save(NewPortfolio(DefaultCash))
    /\ \E i \in Insts : ledger[i] = NoLedger

\* C13: in every reachable state every record of a ledger's trade_history has
\* type BUY or SELL, a quantity above zero and a price above zero.
C13_TradeRecordsValid ==
    \A i \in Insts : ledger[i] # NoLedger =>
        \A k \in 1..Len(ledger[i].trade_history) :
            LET t == ledger[i].trade_history[k]
            IN  t.type \in {"BUY", "SELL"} /\ t.qty > 0 /\ t.price > 0

C14_Step ==
    LET th == ledger[result'.inst].trade_history
        th2 == ledger'[result'.inst].trade_history
    IN  result'.op \in {"buy", "sell"}
        => /\ Len(th2) = Len(th) + (IF result'.outcome = "ok" THEN 1 ELSE 0)
           /\ \A k \in 1..Len(th) : th2[k] = th[k]

InvalidQuantity == {"Quantity must be an integer", "Quantity must be > 0"}

C15_OriginalStep ==
    LET a == result'.args
    IN  (/\ result'.op \in {"buy", "sell"}
         /\ a.symbol # PyNone
         /\ ~(a.qty.kind = "int" /\ a.qty.n > 0))
        => (result'.outcome \in InvalidQuantity /\ ledger' = ledger /\ file' = file)

\* C15 as stated: a buy or sell whose qty is zero, negative or not an integer
\* (a fractional number included) fails with a quantity error and leaves the
\* ledger unchanged.
C15_NonIntegerRejected == [][C15_OriginalStep]_vars

C15_Step ==
    LET a == result'.args
        th2 == ledger'[result'.inst].trade_history
    IN  (result'.op \in {"buy", "sell"} /\ a.symbol # PyNone)
        => /\ a.qty.kind = "bad"
                => (/\ result'.outcome = "Quantity must be an integer"
                    /\ ledger' = ledger /\ file' = file)
           /\ (a.qty.kind = "int" /\ a.qty.n <= 0)
                => (/\ result'.outcome = "Quantity must be > 0"
                    /\ ledger' = ledger /\ file' = file)
           /\ (a.qty.kind = "float" /\ a.qty.n < 2)
                => (/\ result'.outcome = "Quantity must be > 0"
                    /\ ledger' = ledger /\ file' = file)
           /\ (a.qty.kind = "float" /\ a.qty.n >= 2 /\ result'.outcome = "ok")
                => LET q == th2[Len(th2)].qty
                   IN  q >= 1 /\ 2 * q <= a.qty.n /\ a.qty.n < 2 * q + 2

\* C15 as amended: a buy or sell fails with "Quantity must be an integer" when
\* int(qty) raises and with "Quantity must be > 0" when int(qty) is zero or
\* negative (a fraction below one included), the ledger unchanged; a fractional
\* number of one or more is truncated towards zero and traded as that integer.
C15_QuantityCoerced == [][C15_Step]_vars

C15_Witness ==
    /\ result.op = "buy"
    /\ result.outcome = "ok"
    /\ result.args.qty = HalfQ(3)
    /\ ledger[result.inst].holdings["ABC"] = 1

C16_Step ==
    (result'.op \in {"buy", "sell"} /\ result'.args.symbol = "")
    => (result'.outcome # "ok" /\ ledger' = ledger)

C16_Keys ==
    \A i \in Insts : ledger[i] # NoLedger =>
        /\ "" \notin DOMAIN ledger[i].holdings
        /\ \A k \in 1..Len(ledger[i].trade_history) :
              ledger[i].trade_history[k].symbol # ""
        /\ \A s \in DOMAIN ledger[i].holdings : Upper(s) = s

\* C16: a buy or sell whose symbol is the empty string fails and leaves the
\* ledger unchanged, so that no holdings key and no trade record carries the
\* empty symbol; every key is in uppercase.
C16_EmptySymbolRejected == [](C16_Keys) /\ [][C16_Step]_vars

TradeOps == {"buy", "sell", "api_buy", "api_sell"}

C17_Step ==
    LET i == result'.inst
    IN  result'.op \in TradeOps
        => /\ result'.args.io = "fails" => result'.outcome # "ok"
           /\ result'.outcome = "ok"
                => /\ file'.kind = "json"
                   /\ file'.data.cash = ledger'[i].cash
                   /\ file'.data.trade_history = ledger'[i].trade_history

\* C17: a buy or sell during which the write of the durable record fails does
\* not report success, from the Portfolio call and from the handler alike; a
\* trade is reported as done only when the record holds it.
C17_SaveFailureSurfaced == [][C17_Step]_vars

C17_Witness ==
    /\ result.op \in {"buy", "api_buy"}
    /\ result.outcome = "OSError"
    /\ result.args.io = "fails"
    /\ ledger[result.inst] # NoLedger
    /\ Len(ledger[result.inst].trade_history) = 1
    /\ ~FileHolds(ledger[result.inst])

C18_Step ==
    (file.kind = "malformed" /\ result'.op \in {"load", "api_buy", "api_sell"})
    => (result'.outcome # "ok" /\ ledger' = ledger /\ file' = file)

\* C18: on a durable record that does not parse, load() raises and hands no
\* ledger to its caller, and a buy or sell request ends in an error with no
\* trade made and the record left as it was.
C18_MalformedRecordFatal == [][C18_Step]_vars

C18_Witness ==
    /\ result.op = "api_buy"
    /\ result.outcome = "JSONDecodeError"
    /\ file = MalformedFile
    /\ \A i \in Insts : ledger[i] = NoLedger

\* a load() of a record that parses
LoadStep == result'.op = "load" /\ file.kind = "json"

\* the steps C19 is about: the loaded cash and, where only the canonical key
\* is there, the loaded trade log are those of the record
C19_Rest ==
    LET d == file.data
        p2 == ledger'[result'.inst]
    IN  /\ result'.outcome = "ok"
        /\ "cash" \in DOMAIN d => p2.cash = d.cash
        /\ ("trade_history" \in DOMAIN d /\ "trades" \notin DOMAIN d)
              => p2.trade_history = d.trade_history

C19_OriginalStep ==
    LET h == file.data.holdings
        p2 == ledger'[result'.inst]
        integers == {k \in DOMAIN h : h[k].kind = "int"}
    IN  LoadStep
        => /\ C19_Rest
           /\ DOMAIN p2.holdings = {Upper(k) : k \in integers}
           /\ \A k \in integers : p2.holdings[Upper(k)] = h[k].n

\* C19 as stated: load() of a record succeeds, omits every holdings entry whose
\* quantity is not an integer and loads the cash, the trade log and every
\* other entry unchanged.
C19_NonIntegerSkipped == [][C19_OriginalStep]_vars

C19_Step ==
    LET h == file.data.holdings
        p2 == ledger'[result'.inst]
        kept == {k \in DOMAIN h : h[k].kind # "bad"}
    IN  LoadStep
        => /\ C19_Rest
           /\ DOMAIN p2.holdings = {Upper(k) : k \in kept}
           /\ \A k \in kept :
                 LET q == p2.holdings[Upper(k)]
                 IN  IF h[k].kind = "int" THEN q = h[k].n
                     ELSE 2 * q <= h[k].n /\ h[k].n < 2 * q + 2

\* C19 as amended: load() succeeds and omits exactly the entries whose quantity
\* int() refuses; every other entry is loaded under its uppercased key, an
\* integer as it is and a fractional number truncated towards zero; the cash
\* and the trade log are loaded as the record has them.
C19_BadQuantitySkipped == [][C19_Step]_vars

C19_Witness ==
    /\ result.op = "load"
    /\ result.outcome = "ok"
    /\ file.kind = "json"
    /\ DOMAIN file.data.holdings = {"abc", "XYZ"}
    /\ file.data.holdings["XYZ"] = BadQ
    /\ DOMAIN ledger[result.inst].holdings = {"ABC"}
    /\ ledger[result.inst].holdings["ABC"] = 2

C20_OriginalStep ==
    LET d == file.data
        log == ledger'[result'.inst].trade_history
    IN  (LoadStep /\ result'.outcome = "ok")
        => IF "trade_history" \in DOMAIN d THEN log = d.trade_history
           ELSE IF "trades" \in DOMAIN d THEN log = d.trades
           ELSE log = <<>>

\* C20 as stated: the loaded trade log is the value of trade_history whenever
\* that key is in the record, and the value of trades only when it is not.
C20_CanonicalKeyWins == [][C20_OriginalStep]_vars

C20_Step ==
    LET d == file.data
        log == ledger'[result'.inst].trade_history
    IN  (LoadStep /\ result'.outcome = "ok")
        => IF "trade_history" \in DOMAIN d /\ d.trade_history # <<>> THEN log = d.trade_history
           ELSE IF "trades" \in DOMAIN d /\ d.trades # <<>> THEN log = d.trades
           ELSE log = <<>>

\* C20 as amended: the loaded trade log is the value of trade_history when
\* that key is there with a non-empty value, else the value of trades when
\* that key is there with a non-empty value, else empty: an empty
\* trade_history does not keep a non-empty trades from being used.
C20_FirstNonEmptyLog == [][C20_Step]_vars

C20_Witness ==
    /\ result.op = "load"
    /\ result.outcome = "ok"
    /\ file.kind = "json"
    /\ {"trade_history", "trades"} \subseteq DOMAIN file.data
    /\ file.data.trade_history # <<>>
    /\ file.data.trades # <<>>
    /\ ledger[result.inst].trade_history = file.data.trade_history
    /\ ledger[result.inst].trade_history # file.data.trades

(***************************************************************************)
(* Net worth.                                                              *)
(***************************************************************************)
\* cash plus quantity times price over the symbols of the market
RECURSIVE MarketValue(_, _, _)
MarketValue(p, m, syms) ==
    IF syms = {} THEN 0
    ELSE LET sym == CHOOSE x \in syms : TRUE
         IN  Owned(p, sym) * m.stocks[sym].price + MarketValue(p, m, syms \ {sym})

C21_Step ==
    result'.op = "net_worth" =>
        /\ result'.outcome = "ok"
        /\ result'.args.value =
              ledger[1].cash + MarketValue(ledger[1], market, DOMAIN market.stocks)
        /\ UNCHANGED <<ledger, market, file>>

\* C21: net_worth(market) is the cash plus, over the held symbols the market
\* lists, quantity times current price; a held symbol the market does not
\* list adds nothing and raises nothing, and the call changes neither the
\* ledger nor the market.
C21_NetWorth == [][C21_Step]_vars

C21_Witness ==
    /\ result.op = "net_worth"
    /\ Owned(ledger[1], "GONE") = 2
    /\ Owned(ledger[1], "ABC") = 1
    /\ market.stocks["ABC"].price = 200
    /\ result.args.value = 9900

(***************************************************************************)
(* The market.                                                             *)
(***************************************************************************)
AddStockOps == {"add_stock", "api_addstock"}

\* the key an addstock request asks for
AskedSymbol(r) ==
    IF r.op = "api_addstock" THEN ApiSymbol(r.args.symbol) ELSE Upper(r.args.symbol)

C22_Step ==
    (result'.op \in AddStockOps /\ AskedSymbol(result') \in DOMAIN market.stocks) =>
        /\ result'.outcome \notin {"added", "stock added"}
        /\ market' = market

\* C22: adding an instrument under a symbol the market already lists
\* (compared after upper-casing) fails and leaves the market as it was: the
\* listed instrument keeps its price, its parameters and its history.
C22_DuplicateRejected == [][C22_Step]_vars

AdvanceOps == {"simulate_days", "api_next"}

\* an advance asked for less than one day
ShortAdvance(r) == r.op \in AdvanceOps /\ IntOk(r.args.days) /\ ToInt(r.args.days) < 1

C23_OriginalStep == ShortAdvance(result') => result'.outcome # "ok"

\* C23 as stated: an advance by less than one day (zero or negative) fails.
C23_ShortAdvanceFails == [][C23_OriginalStep]_vars

C23_Step ==
    ShortAdvance(result') =>
        /\ market' = market
        /\ result'.op = "api_next" => result'.outcome = "days must be >= 1"
        /\ result'.op = "simulate_days" => result'.outcome = "ok"

\* C23 as amended: an advance by less than one day never moves the market;
\* the handler /api/next refuses it with "days must be >= 1", and
\* Market.simulate_days itself returns without an error, leaving the date,
\* the prices and the histories as they were.
C23_ShortAdvanceIgnored == [][C23_Step]_vars

C23_Witness ==
    /\ result.op = "simulate_days"
    /\ ToInt(result.args.days) = -1
    /\ result.outcome = "ok"
    /\ market.date = Today + 1

\* the history h2 is the history h followed by one entry for each of the n
\* dates after date, in their order
Extended(h, h2, date, n) ==
    /\ Len(h2) = Len(h) + n
    /\ SubSeq(h2, 1, Len(h)) = h
    /\ \A k \in 1..n : h2[Len(h) + k][1] = date + k

C24_Step ==
    (result'.op = "simulate_days" /\ ToInt(result'.args.days) >= 1) =>
        LET n == ToInt(result'.args.days)
        IN  /\ market'.date = market.date + n
            /\ DOMAIN market'.stocks = DOMAIN market.stocks
            /\ \A sym \in DOMAIN market.stocks :
                  /\ Extended(market.stocks[sym].history, market'.stocks[sym].history,
                              market.date, n)
                  /\ market'.stocks[sym].history[Len(market'.stocks[sym].history)][2]
                        = market'.stocks[sym].price

C25_PricesPositive ==
    \A sym \in DOMAIN market.stocks :
        market.stocks[sym].finite /\ market.stocks[sym].price > 0

\* C26: no instrument whose price is not a finite number enters the market,
\* so no advance carries such a price into the prices or the histories.
C26_PricesFinite == \A sym \in DOMAIN market.stocks : market.stocks[sym].finite

\* the symbols of a listing, in its order
Symbols(listing) == [k \in DOMAIN listing |-> listing[k][1]]

\* the place of a symbol in the order of the symbols
Rank(sym) == CHOOSE k \in DOMAIN SymbolOrder : SymbolOrder[k] = sym

C27_Step ==
    result'.op = "list_prices" =>
        LET out == result'.args.prices
        IN  /\ Len(out) = Cardinality(DOMAIN market.stocks)
            /\ \A sym \in DOMAIN market.stocks :
                  \E k \in DOMAIN out : out[k] = <<sym, market.stocks[sym].price>>
            /\ \A j, k \in DOMAIN out : j < k => Rank(out[j][1]) < Rank(out[k][1])

\* C27: list_prices returns exactly one entry for each instrument of the
\* market, holding its current price, in the lexicographic order of the
\* symbols whatever the order in which the instruments were added.
C27_ListSorted == [][C27_Step]_vars

C27_Witness ==
    /\ result.op = "list_prices"
    /\ market.order = <<"XYZ", "ABC">>
    /\ Symbols(result.args.prices) = <<"ABC", "XYZ">>
    /\ market.date = Today + 1

(***************************************************************************)
(* Reset.                                                                  *)
(***************************************************************************)
C28_OriginalStep == market'.date >= market.date

\* C28 as stated: the date of the market never decreases, over adding
\* instruments, advancing, buying, selling and resetting alike.
C28_DateMonotonic == [][C28_OriginalStep]_vars

C28_Step ==
    IF result'.op = "api_reset"
    THEN market'.date = Today
    ELSE /\ market'.date >= market.date
         /\ market'.date # market.date =>
               /\ result'.op = "api_next"
               /\ market'.date = market.date + ToInt(result'.args.days)

\* C28 as amended: over adding instruments, advancing, buying and selling
\* the date of the market never decreases and moves only by the whole days
\* of an advance; a reset puts it back to the date a new market starts from.
C28_DateMonotonicUntilReset == [][C28_Step]_vars

C28_Witness ==
    /\ result.op = "api_reset"
    /\ market.date = Today
    /\ ledger[1] # NoLedger
    /\ \E k \in DOMAIN ledger[1].trade_history :
          ledger[1].trade_history[k].date = [day |-> Today + 1, fmt |-> "YYYY-MM-DD"]

DefaultPrices == [sym \in {"ABC", "XYZ", "FOO", "BAR"} |->
                    CASE sym = "ABC" -> 100 [] sym = "XYZ" -> 50
                      [] sym = "FOO" -> 200 [] OTHER -> 10]

C29_Step ==
    result'.op = "api_reset" =>
        /\ file'.kind = "json"
        /\ file'.data.cash = DefaultCash
        /\ DOMAIN file'.data.holdings = {}
        /\ file'.data.trade_history = <<>>
        /\ DOMAIN market'.stocks = DOMAIN DefaultPrices
        /\ \A sym \in DOMAIN DefaultPrices :
              /\ market'.stocks[sym].price = DefaultPrices[sym]
              /\ market'.stocks[sym].history = << <<market'.date, DefaultPrices[sym]>> >>

\* C29: after a reset the durable ledger record holds the default cash, no
\* holdings and no trades, and the market lists exactly the default
\* instruments at their initial prices, each with a history of one entry:
\* instruments added before and every price move are gone.
C29_ResetToDefaults == [][C29_Step]_vars

C29_Witness ==
    /\ result.op = "api_reset"
    /\ ledger[1] # NoLedger
    /\ \E k \in DOMAIN ledger[1].trade_history :
          /\ ledger[1].trade_history[k].symbol = "ABC"
          /\ ledger[1].trade_history[k].price = 200
    /\ market.stocks["ABC"].price = 100
    /\ "NEG" \notin DOMAIN market.stocks
    /\ file.data.trade_history = <<>>

(***************************************************************************)
(* Trades through the handlers.                                            *)
(***************************************************************************)
C30_Step ==
    (result'.op \in {"api_buy", "api_sell"} /\ result'.outcome = "ok") =>
        LET symbol == ApiSymbol(result'.args.symbol)
            th == file'.data.trade_history
            t == th[Len(th)]
        IN  /\ Len(th) = Len(Loaded(file).trade_history) + 1
            /\ t.symbol = symbol
            /\ t.qty = ToInt(result'.args.qty)
            /\ t.price = market.stocks[symbol].price
            /\ t.date = [day |-> market.date, fmt |-> "YYYY-MM-DD"]

\* C30: a trade made through /api/buy or /api/sell, which take a symbol and
\* a quantity only, is recorded at the price the market has for the symbol
\* when the handler runs and under the date of the market.
C30_TradeAtMarket == [][C30_Step]_vars

C30_Witness ==
    /\ result.op = "api_sell"
    /\ result.outcome = "ok"
    /\ market.date = Today + 1
    /\ LET th == file.data.trade_history
       IN  /\ Len(th) = 2
           /\ th[1].price = 100 /\ th[1].date.day = Today
           /\ th[2].price = 200 /\ th[2].date.day = Today + 1
           /\ th[2].price = market.stocks[th[2].symbol].price

(***************************************************************************)
(* Histories.                                                              *)
(***************************************************************************)
\* the instrument sym is the one the step adds
AddedNow(sym) ==
    /\ result'.op \in AddStockOps
    /\ result'.outcome \in {"added", "stock added"}
    /\ AskedSymbol(result') = sym

C31_NonEmpty == \A sym \in DOMAIN market.stocks : market.stocks[sym].history # <<>>

C31_OriginalStep ==
    \A sym \in DOMAIN market'.stocks :
        IF AddedNow(sym)
        THEN Head(market'.stocks[sym].history) = <<market.date, market'.stocks[sym].price>>
        ELSE /\ sym \in DOMAIN market.stocks
             /\ Head(market'.stocks[sym].history) = Head(market.stocks[sym].history)

\* C31 as stated: every instrument of the market has a history that is not
\* empty and whose first entry is the one recorded when it was added.
C31_FirstEntryAtAddition == [] C31_NonEmpty /\ [][C31_OriginalStep]_vars

\* the first entry a step leaves in a history h that becomes h2
HeadKept(h, h2) ==
    LET evicted == Len(h) + (market'.date - market.date) - HistoryMaxLen
    IN  IF evicted <= 0 THEN Head(h2) = Head(h)
        ELSE Head(h2) = h[1 + evicted]

C31_Step ==
    \A sym \in DOMAIN market'.stocks :
        IF AddedNow(sym)
        THEN Head(market'.stocks[sym].history) = <<market.date, market'.stocks[sym].price>>
        ELSE /\ sym \in DOMAIN market.stocks
             /\ HeadKept(market.stocks[sym].history, market'.stocks[sym].history)

\* C31 as amended: every instrument of the market has a history that is not
\* empty; its first entry is the one recorded when it was added until the
\* history holds HistoryMaxLen entries, and from then on each day recorded
\* evicts the oldest entry.
C31_FirstEntryUntilFull == [] C31_NonEmpty /\ [][C31_Step]_vars

C31_Witness ==
    /\ DOMAIN market.stocks = {"ABC", "XYZ"}
    /\ Len(market.stocks["ABC"].history) = HistoryMaxLen
    /\ Head(market.stocks["ABC"].history)[1] = Today - (HistoryMaxLen - 1) + 2
    /\ Head(market.stocks["XYZ"].history) = <<Today + 1, 7>>
    /\ market.date = Today + 2

(***************************************************************************)
(* Market and ledger.                                                      *)
(***************************************************************************)
MarketOps == {"add_stock", "simulate_days", "list_prices"}

LedgerOps == {"buy", "sell", "net_worth"}

C32_Step ==
    /\ result'.op \in MarketOps => UNCHANGED <<ledger, file>>
    /\ result'.op \in LedgerOps => market' = market

\* C32: adding an instrument, advancing and listing the prices leave the
\* ledger (cash, holdings, trade_history) and the durable record as they
\* were; buying, selling and net_worth leave the date of the market and the
\* price and history of every instrument as they were.
C32_Separate == [][C32_Step]_vars

C32_Witness ==
    /\ result.op = "net_worth"
    /\ ledger[1] # NoLedger
    /\ DOMAIN ledger[1].holdings = {}
    /\ Len(ledger[1].trade_history) = 2
    /\ "ABC" \in DOMAIN market.stocks
    /\ market.date = Today + 1

(***************************************************************************)
(* The ledger as the replay of its log.                                    *)
(***************************************************************************)
\* the shares of sym the log th leaves: bought less sold
RECURSIVE ReplayQty(_, _)
ReplayQty(th, sym) ==
    IF th = <<>> THEN 0
    ELSE LET t == th[Len(th)]
             d == IF t.symbol # sym THEN 0
                  ELSE IF t.type = "BUY" THEN t.qty ELSE -t.qty
         IN  ReplayQty(SubSeq(th, 1, Len(th) - 1), sym) + d

\* the cash the log th leaves of the cash c0: less the buys, plus the sells
RECURSIVE ReplayCash(_, _)
ReplayCash(th, c0) ==
    IF th = <<>> THEN c0
    ELSE LET t == th[Len(th)]
             before == ReplayCash(SubSeq(th, 1, Len(th) - 1), c0)
         IN  IF t.type = "BUY" THEN before - t.price * t.qty ELSE before + t.price * t.qty

\* the symbols a ledger names, in its holdings or in its log
Named(p) == DOMAIN p.holdings \cup {p.trade_history[k].symbol : k \in DOMAIN p.trade_history}

\* C33: a ledger that started with the default cash and no trades, and that
\* only buy and sell have changed, is the replay of its trade_history: the
\* holding of every symbol (0 if absent) is what was bought less what was
\* sold, and the cash is the starting cash less the cost of the buys plus
\* the proceeds of the sells.
C33_Replay ==
    ledger[1] # NoLedger =>
        /\ ledger[1].cash = ReplayCash(ledger[1].trade_history, DefaultCash)
        /\ \A sym \in Named(ledger[1]) :
              Owned(ledger[1], sym) = ReplayQty(ledger[1].trade_history, sym)

C33_Witness ==
    /\ ledger[1] # NoLedger
    /\ Len(ledger[1].trade_history) = 2
    /\ ledger[1].trade_history[1].type = "BUY"
    /\ ledger[1].trade_history[2].type = "SELL"
    /\ Owned(ledger[1], "ABC") = 99
    /\ ledger[1].cash = 100

\* the last entry of the history h is the price price on the day date, and
\* the entries of h are dated one day after the other
UpToDate(h, date, price) ==
    /\ h # <<>>
    /\ h[Len(h)] = <<date, price>>
    /\ \A k \in 1..(Len(h) - 1) : h[k + 1][1] = h[k][1] + 1

\* C34: in a market whose instruments were each added once (or added anew by
\* the addstock command), the last entry of the history of every instrument
\* is the date of the market with the current price of the instrument, and
\* the entries that follow one another are dated one day apart.
C34_HistoryUpToDate ==
    \A sym \in DOMAIN market.stocks :
        UpToDate(market.stocks[sym].history, market.date, market.stocks[sym].price)

C34_Witness ==
    /\ result.op = "simulate_days"
    /\ DOMAIN market.stocks = {"ABC", "XYZ"}
    /\ Len(market.stocks["ABC"].history) = 3
    /\ Len(market.stocks["XYZ"].history) = 2
    /\ market.stocks["XYZ"].history[2] = <<Today + 2, 14>>
    /\ market.stocks["ABC"].price = 2

C35_Step ==
    (/\ result'.op \in {"api_buy", "api_sell"}
     /\ ApiSymbol(result'.args.symbol) \notin DOMAIN market.stocks) =>
        /\ result'.outcome \in {"unknown symbol", "symbol is required",
                                "qty must be an integer", "qty must be > 0"}
        /\ (IntOk(result'.args.qty) /\ ToInt(result'.args.qty) > 0
               /\ ApiSymbol(result'.args.symbol) # "")
             => result'.outcome = "unknown symbol"
        /\ UNCHANGED <<ledger, file>>

\* C35: a buy or a sell through the handlers that names a symbol the market
\* does not list is refused before the ledger is loaded: cash, holdings,
\* trade_history and the durable record stay as they were.
C35_UnknownSymbolRejected == [][C35_Step]_vars

C35_Witness ==
    /\ result.op = "api_sell"
    /\ result.outcome = "unknown symbol"
    /\ result.args.symbol = "nope"
    /\ file.kind = "json"
    /\ Len(file.data.trade_history) = 1
    /\ market.date = Today + 1
====
